---- MODULE Spec2Model ----
(***************************************************************************)
(* Model of crank_interest (src/src/main.rs): the scheduling loop of main, *)
(* the executor crank_accrue_interest, the four program-derived addresses  *)
(* and the cluster identification get_cluster.                             *)
(*                                                                         *)
(* Time is counted in whole seconds.  The wall clock (Utc::now) is an      *)
(* input of the program: it advances between the two reads of one loop     *)
(* iteration and during the sleep by an amount the environment chooses.    *)
(***************************************************************************)
EXTENDS Integers, Sequences, FiniteSets, TLC

VARIABLES
    pc,                          \* position of the single task
    now,                         \* the wall clock
    last_execution_time,         \* main.rs:188
    current_time,                \* main.rs:190
    iter,                        \* number of loop iterations started
    cycles,                      \* number of due cycles started
    firstEntry,                  \* clock value captured at loop entry
    cycleStart,                  \* clock value at which the latest cycle ran
    cranker,                     \* main.rs:197, the key read for the cycle
    savings_vault,               \* main.rs:106
    savings_vault_treasury,      \* main.rs:107
    interest_depositor_manager,  \* main.rs:108
    interest_depositor_treasury, \* main.rs:109
    accrue_ix,                   \* main.rs:113-128
    builder,                     \* main.rs:132-136
    sig,                         \* main.rs:138, the discarded send result
    account,                     \* main.rs:140-142, the existence read
    genesis_hash,                \* main.rs:168, outcome of get_genesis_hash
    cluster,                     \* main.rs:144, result of get_cluster
    res,                         \* main.rs:198, the discarded cycle result
    rpcLog,                      \* RPC calls issued by the current cycle
    results,                     \* results of the completed cycles, in order
    dIn,                         \* AddressDeriver inputs (DeriveSpec)
    dOut                         \* AddressDeriver outputs (DeriveSpec)

vars == <<pc, now, last_execution_time, current_time, iter, cycles,
          firstEntry, cycleStart, cranker,
          savings_vault, savings_vault_treasury,
          interest_depositor_manager, interest_depositor_treasury,
          accrue_ix, builder, sig, account, genesis_hash, cluster, res,
          rpcLog, results, dIn, dOut>>

schedVars == <<now, last_execution_time, current_time, iter, cycles,
               firstEntry, cycleStart>>

crankVars == <<savings_vault, savings_vault_treasury,
               interest_depositor_manager, interest_depositor_treasury,
               accrue_ix, builder, sig, account, genesis_hash, cluster,
               rpcLog>>

deriveVars == <<dIn, dOut>>

----------------------------------------------------------------------------
(* Bounds of the model *)

MaxIter == 3

----------------------------------------------------------------------------
(* Program constants *)

SAVINGS_VAULT_PROGRAM_ID == "HfJVM6Ayjajt9H58AZoCFqkCQQFehSeQfGQbi3crxT8W"
COMPUTE_UNITS == 400000
SEED_SAVINGS_VAULT == "savings_vault"
SEED_SAVINGS_VAULT_TREASURY == "savings_vault-treasury"
SEED_INTEREST_DEPOSITOR_MANAGER == "interest_depositor_manager"
SEED_INTEREST_DEPOSITOR_TREASURY == "interest_depositor_treasury"
DEVNET_HASH == "EtWTRABZaYq6iMfeYKouRu166VU2xqa1wcaWoxPkrZBG"
MAINNET_HASH == "5eykt4UsFv8P8NJdTREpY1vzqKqZKvdpKuc147dw2N9d"
WALLET == "TUAXRFzyLeXmG9wPLaMXt66jUagfrWmL9oGq4rMwjAu"
MINT == "FmAFDKSPL61s8kQZCHwsZULA313pdHJ73PuBK4wePpNh"
TOKEN_PROGRAM_ID == "spl_token::ID"
CLOCK_ID == "sysvar::clock::ID"
CRANKER_KEY == "cranker"

GateDays == 30
SecsPerDay == 86400
SleepSecs == 60 * 60
Days30 == GateDays * SecsPerDay

NoTime == -1
None == [none |-> TRUE]

----------------------------------------------------------------------------
(* Inputs of the environment *)

\* clock advance between the read of line 188 and the read of line 190; the
\* wall clock may also be stepped back
Gaps == {-1, 0, 1, Days30 - 1, Days30}

\* clock advance over sleep(3600): the sleep lasts at least its argument
SleepAdvances == {SleepSecs, Days30}

\* read_keypair_file
KeyReads == {"ok", "err"}

\* RequestBuilder::instructions
IxBuilds == {"err", "empty", "one"}

\* RequestBuilder::send
SendResults == {"sig", "err"}

\* get_account_with_commitment: Err, Ok(value: None), Ok(value: Some)
AccountReads == {"err", "absent", "present"}

\* get_genesis_hash
OTHER_HASH == "4uhcVJyU9pJkvQyS88uRDiswHXSCkY3zQawwpjk2NsNY"
GenesisReads == {"err", DEVNET_HASH, MAINNET_HASH, OTHER_HASH}

----------------------------------------------------------------------------
(* Identities and program-derived addresses *)

\* a byte-string seed literal
Seed(s) == [lit |-> s]

\* Pubkey::from_str of a base58 literal
Pubkey(s) == [b58 |-> s, program |-> "", seeds |-> << >>]

\* Pubkey::find_program_address: the address is the hash of the seeds, the
\* bump and the program id; the hash is modelled as the term of its inputs,
\* the seeds concatenated in order.  The bump is the first of 255, 254, ...
\* whose hash is off the curve; it is a function of the same inputs.
BumpOf(seeds, program_id) == 255 - (Len(seeds) % 2)

find_program_address(seeds, program_id) ==
    << [b58 |-> "", program |-> program_id.b58, seeds |-> seeds],
       BumpOf(seeds, program_id) >>

find_savings_vault_pda_no_wallet(mint, wallet) ==
    find_program_address(<<Seed(SEED_SAVINGS_VAULT), mint>>,
                         Pubkey(SAVINGS_VAULT_PROGRAM_ID))

find_savings_vault_pda_per_cycle(mint, wallet) ==
    find_program_address(<<Seed(SEED_SAVINGS_VAULT), mint, wallet,
                           [lit |-> cycles]>>,
                         Pubkey(SAVINGS_VAULT_PROGRAM_ID))

find_savings_vault_pda(mint, wallet) ==
    find_program_address(<<Seed(SEED_SAVINGS_VAULT), mint, wallet>>,
                         Pubkey(SAVINGS_VAULT_PROGRAM_ID))

find_savings_vault_treasury_pda(sv) ==
    find_program_address(<<Seed(SEED_SAVINGS_VAULT_TREASURY), sv>>,
                         Pubkey(SAVINGS_VAULT_PROGRAM_ID))

find_interest_depositor_manager_pda(mint) ==
    find_program_address(<<Seed(SEED_INTEREST_DEPOSITOR_MANAGER), mint>>,
                         Pubkey(SAVINGS_VAULT_PROGRAM_ID))

find_interest_depositor_treasury_pda(idm) ==
    find_program_address(<<Seed(SEED_INTEREST_DEPOSITOR_TREASURY), idm>>,
                         Pubkey(SAVINGS_VAULT_PROGRAM_ID))

----------------------------------------------------------------------------
(* Cluster identification *)

get_cluster_unknown_is_mainnet(g) ==
    IF g = "err" THEN [ok |-> FALSE, value |-> "ClientError"]
    ELSE [ok |-> TRUE,
          value |-> IF g = DEVNET_HASH THEN "Devnet" ELSE "Mainnet"]

\* get_cluster: g is the outcome of get_genesis_hash
get_cluster(g) ==
    IF g = "err" THEN [ok |-> FALSE, value |-> "ClientError"]
    ELSE [ok |-> TRUE,
          value |-> IF g = DEVNET_HASH THEN "Devnet"
                    ELSE IF g = MAINNET_HASH THEN "Mainnet"
                    ELSE "Devnet"]

unwrap_or_devnet(r, d) == IF r.ok THEN r.value ELSE "Devnet"

\* Result::unwrap_or
unwrap_or(r, d) == IF r.ok THEN r.value ELSE d

cluster_param_blank(c) == ""

\* the match of lines 144-147
cluster_param(c) == IF c = "Devnet" THEN "?devnet" ELSE ""

\* the anyhow! error of lines 148-152
VaultNotFound(sv, param) ==
    [kind |-> "VaultNotFound",
     message |-> <<"Savings vault account ", sv,
                   " does not exist on cluster ", param>>]

----------------------------------------------------------------------------
(* Scheduler gate *)

\* chrono Duration::num_days: whole days, truncated towards zero
num_days(d) ==
    IF d >= 0 THEN d \div SecsPerDay ELSE -((-d) \div SecsPerDay)

GateDueStrict(d) == num_days(d) > GateDays

GateDueEveryCheck(d) == num_days(d) >= 0

GateDueUnlessFailed(d) ==
    /\ num_days(d) >= GateDays
    /\ (res = None \/ res.kind = "Ok")

\* the condition of line 196
GateDue(d) == num_days(d) >= GateDays

----------------------------------------------------------------------------
SchedulerInit ==
    /\ pc = "loop_top"
    /\ now = 0
    /\ last_execution_time = NoTime
    /\ current_time = NoTime
    /\ iter = 0
    /\ cycles = 0
    /\ firstEntry = NoTime
    /\ cycleStart = NoTime
    /\ cranker = None
    /\ savings_vault = None
    /\ savings_vault_treasury = None
    /\ interest_depositor_manager = None
    /\ interest_depositor_treasury = None
    /\ accrue_ix = None
    /\ builder = None
    /\ sig = "none"
    /\ account = "none"
    /\ genesis_hash = "none"
    /\ cluster = None
    /\ res = None
    /\ rpcLog = << >>
    /\ results = << >>

Init ==
    /\ SchedulerInit
    /\ dIn = None
    /\ dOut = None

ReadLastOnce ==
    /\ pc = "loop_top"
    /\ iter < MaxIter
    /\ pc' = "read_current"
    /\ iter' = iter + 1
    /\ last_execution_time' =
           IF last_execution_time = NoTime THEN now ELSE last_execution_time
    /\ firstEntry' = IF firstEntry = NoTime THEN now ELSE firstEntry
    /\ UNCHANGED <<now, current_time, cycles, cycleStart, cranker, res,
                   results>>
    /\ UNCHANGED crankVars
    /\ UNCHANGED deriveVars

\* line 188: let last_execution_time = Utc::now()
ReadLast ==
    /\ pc = "loop_top"
    /\ iter < MaxIter
    /\ pc' = "read_current"
    /\ iter' = iter + 1
    /\ last_execution_time' = now
    /\ firstEntry' = IF firstEntry = NoTime THEN now ELSE firstEntry
    /\ UNCHANGED <<now, current_time, cycles, cycleStart, cranker, res,
                   results>>
    /\ UNCHANGED crankVars
    /\ UNCHANGED deriveVars

\* lines 190-191: let current_time = Utc::now(), read after the clock moved
ReadCurrent ==
    /\ pc = "read_current"
    /\ \E gap \in Gaps :
         /\ now' = now + gap
         /\ current_time' = now + gap
    /\ pc' = "gate"
    /\ UNCHANGED <<last_execution_time, iter, cycles, firstEntry, cycleStart,
                   cranker, res, results>>
    /\ UNCHANGED crankVars
    /\ UNCHANGED deriveVars

\* line 196: if duration_since_last_execution.num_days() >= 30
Gate ==
    /\ pc = "gate"
    /\ IF GateDue(current_time - last_execution_time)
       THEN /\ pc' = "due"
            /\ cycles' = cycles + 1
            /\ cycleStart' = current_time
       ELSE /\ pc' = "sleep"
            /\ UNCHANGED <<cycles, cycleStart>>
    /\ UNCHANGED <<now, last_execution_time, current_time, iter, firstEntry,
                   cranker, res, results>>
    /\ UNCHANGED crankVars
    /\ UNCHANGED deriveVars

\* line 197: read_keypair_file(KEYPAIR_PATH).unwrap()
LoadKey ==
    /\ pc = "due"
    /\ \E k \in KeyReads :
         IF k = "ok"
         THEN /\ cranker' = Pubkey(CRANKER_KEY)
              /\ pc' = "crank_derive"
         ELSE /\ cranker' = None
              /\ pc' = "panicked"
    /\ UNCHANGED <<res, results>>
    /\ UNCHANGED schedVars
    /\ UNCHANGED crankVars
    /\ UNCHANGED deriveVars

\* lines 106-109: the dependency chain of the four derived addresses
DerivedAddresses(mint, wallet) ==
    LET sv  == find_savings_vault_pda(mint, wallet)[1]
        idm == find_interest_depositor_manager_pda(mint)[1]
    IN [savings_vault |-> sv,
        savings_vault_treasury |-> find_savings_vault_treasury_pda(sv)[1],
        interest_depositor_manager |-> idm,
        interest_depositor_treasury |->
            find_interest_depositor_treasury_pda(idm)[1]]

\* lines 102-111: entry of crank_accrue_interest, the addresses of the cycle
Derive ==
    /\ pc = "crank_derive"
    /\ LET d == DerivedAddresses(Pubkey(MINT), Pubkey(WALLET))
       IN /\ savings_vault' = d.savings_vault
          /\ savings_vault_treasury' = d.savings_vault_treasury
          /\ interest_depositor_manager' = d.interest_depositor_manager
          /\ interest_depositor_treasury' = d.interest_depositor_treasury
    /\ accrue_ix' = None
    /\ builder' = None
    /\ sig' = "none"
    /\ account' = "none"
    /\ genesis_hash' = "none"
    /\ cluster' = None
    /\ rpcLog' = << >>
    /\ pc' = "crank_ix"
    /\ UNCHANGED <<cranker, res, results>>
    /\ UNCHANGED schedVars
    /\ UNCHANGED deriveVars

AccrueInterestWalletFirst(signer) ==
    [program |-> SAVINGS_VAULT_PROGRAM_ID,
     accounts |-> << <<"wallet", Pubkey(WALLET)>>,
                     <<"cranker", signer>>,
                     <<"mint", Pubkey(MINT)>>,
                     <<"savings_vault", savings_vault>>,
                     <<"savings_vault_treasury", savings_vault_treasury>>,
                     <<"interest_depositor_manager",
                       interest_depositor_manager>>,
                     <<"interest_depositor_treasury",
                       interest_depositor_treasury>>,
                     <<"token_program", Pubkey(TOKEN_PROGRAM_ID)>>,
                     <<"clock", Pubkey(CLOCK_ID)>> >>]

\* lines 116-126: the accounts of accounts::AccrueInterest
AccrueInterest(signer) ==
    [program |-> SAVINGS_VAULT_PROGRAM_ID,
     accounts |-> << <<"mint", Pubkey(MINT)>>,
                     <<"cranker", signer>>,
                     <<"wallet", Pubkey(WALLET)>>,
                     <<"savings_vault", savings_vault>>,
                     <<"savings_vault_treasury", savings_vault_treasury>>,
                     <<"interest_depositor_manager",
                       interest_depositor_manager>>,
                     <<"interest_depositor_treasury",
                       interest_depositor_treasury>>,
                     <<"token_program", Pubkey(TOKEN_PROGRAM_ID)>>,
                     <<"clock", Pubkey(CLOCK_ID)>> >>]

\* line 130: ComputeBudgetInstruction::set_compute_unit_limit
set_compute_unit_limit(units) ==
    [program |-> "ComputeBudget", accounts |-> <<units>>]

BuildAccrueIxAsVaultNotFound ==
    /\ pc = "crank_ix"
    /\ \E b \in IxBuilds :
         CASE b = "err" ->
                /\ res' = VaultNotFound(savings_vault, "")
                /\ results' = Append(results, "VaultNotFound")
                /\ pc' = "sleep"
                /\ UNCHANGED accrue_ix
           [] b = "empty" ->
                /\ accrue_ix' = << >>
                /\ pc' = "crank_builder"
                /\ UNCHANGED <<res, results>>
           [] b = "one" ->
                /\ accrue_ix' = <<AccrueInterest(cranker)>>
                /\ pc' = "crank_builder"
                /\ UNCHANGED <<res, results>>
    /\ UNCHANGED <<cranker, savings_vault, savings_vault_treasury,
                   interest_depositor_manager, interest_depositor_treasury,
                   builder, sig, account, genesis_hash, cluster, rpcLog>>
    /\ UNCHANGED schedVars
    /\ UNCHANGED deriveVars

\* lines 113-128: accrue_ix.instructions()?
BuildAccrueIx ==
    /\ pc = "crank_ix"
    /\ \E b \in IxBuilds :
         CASE b = "err" ->
                /\ res' = [kind |-> "ClientError", message |-> << >>]
                /\ results' = Append(results, "ClientError")
                /\ pc' = "sleep"
                /\ UNCHANGED accrue_ix
           [] b = "empty" ->
                /\ accrue_ix' = << >>
                /\ pc' = "crank_builder"
                /\ UNCHANGED <<res, results>>
           [] b = "one" ->
                /\ accrue_ix' = <<AccrueInterest(cranker)>>
                /\ pc' = "crank_builder"
                /\ UNCHANGED <<res, results>>
    /\ UNCHANGED <<cranker, savings_vault, savings_vault_treasury,
                   interest_depositor_manager, interest_depositor_treasury,
                   builder, sig, account, genesis_hash, cluster, rpcLog>>
    /\ UNCHANGED schedVars
    /\ UNCHANGED deriveVars

\* lines 130-136: the request; accrue_ix[0] panics on an empty vector
BuildRequest ==
    /\ pc = "crank_builder"
    /\ IF Len(accrue_ix) = 0
       THEN /\ pc' = "panicked"
            /\ UNCHANGED builder
       ELSE /\ builder' =
                  [instructions |-> <<set_compute_unit_limit(COMPUTE_UNITS),
                                      accrue_ix[1]>>,
                   signers |-> <<cranker>>]
            /\ pc' = "crank_send"
    /\ UNCHANGED <<cranker, savings_vault, savings_vault_treasury,
                   interest_depositor_manager, interest_depositor_treasury,
                   accrue_ix, sig, account, genesis_hash, cluster, rpcLog,
                   res, results>>
    /\ UNCHANGED schedVars
    /\ UNCHANGED deriveVars

\* line 138: let _sig = builder.send()
Send ==
    /\ pc = "crank_send"
    /\ \E s \in SendResults : sig' = s
    /\ rpcLog' = Append(rpcLog, "send")
    /\ pc' = "crank_read"
    /\ UNCHANGED <<cranker, savings_vault, savings_vault_treasury,
                   interest_depositor_manager, interest_depositor_treasury,
                   accrue_ix, builder, account, genesis_hash, cluster,
                   res, results>>
    /\ UNCHANGED schedVars
    /\ UNCHANGED deriveVars

ReadFailedOnErrOnly(a) == a = "err"

ReadFailedAlways(a) == a \in {"err", "absent", "present"}

\* the pattern of line 140: Err(_) | Ok(Response { value: None, .. })
ReadFailed(a) == a = "err" \/ a = "absent"

\* lines 140-143 and 156: the existence read of savings_vault, Ok(()) when
\* the pattern of line 140 does not match
GetAccount ==
    /\ pc = "crank_read"
    /\ \E a \in AccountReads :
         /\ account' = a
         /\ IF ReadFailed(a)
            THEN /\ pc' = "crank_cluster"
                 /\ UNCHANGED <<res, results>>
            ELSE /\ res' = [kind |-> "Ok", message |-> << >>]
                 /\ results' = Append(results, "Ok")
                 /\ pc' = "sleep"
    /\ rpcLog' = Append(rpcLog, "get_account")
    /\ UNCHANGED <<cranker, savings_vault, savings_vault_treasury,
                   interest_depositor_manager, interest_depositor_treasury,
                   accrue_ix, builder, sig, genesis_hash, cluster>>
    /\ UNCHANGED schedVars
    /\ UNCHANGED deriveVars

\* lines 144-152: get_cluster(program.rpc()) and the returned error
GetCluster ==
    /\ pc = "crank_cluster"
    /\ \E g \in GenesisReads :
         /\ genesis_hash' = g
         /\ cluster' = get_cluster(g)
         /\ res' = VaultNotFound(savings_vault,
                       cluster_param(unwrap_or(get_cluster(g), "Mainnet")))
    /\ results' = Append(results, "VaultNotFound")
    /\ rpcLog' = Append(rpcLog, "get_genesis_hash")
    /\ pc' = "sleep"
    /\ UNCHANGED <<cranker, savings_vault, savings_vault_treasury,
                   interest_depositor_manager, interest_depositor_treasury,
                   accrue_ix, builder, sig, account>>
    /\ UNCHANGED schedVars
    /\ UNCHANGED deriveVars

\* line 200: sleep(Duration::from_secs(60 * 60))
Sleep ==
    /\ pc = "sleep"
    /\ \E d \in SleepAdvances : now' = now + d
    /\ pc' = "loop_top"
    /\ UNCHANGED <<last_execution_time, current_time, iter, cycles,
                   firstEntry, cycleStart, cranker, res, results>>
    /\ UNCHANGED crankVars
    /\ UNCHANGED deriveVars

Next ==
    \/ ReadLast
    \/ ReadCurrent
    \/ Gate
    \/ LoadKey
    \/ Derive
    \/ BuildAccrueIx
    \/ BuildRequest
    \/ Send
    \/ GetAccount
    \/ GetCluster
    \/ Sleep

Spec == Init /\ [][Next]_vars

----------------------------------------------------------------------------
(* The Scheduler under a steady clock: the two clock reads of one          *)
(* iteration, lines 188 and 190, are always less than 30 days apart        *)

SteadyReadCurrent ==
    /\ ReadCurrent
    /\ now' - now < Days30

SteadyNext ==
    \/ ReadLast
    \/ SteadyReadCurrent
    \/ Gate
    \/ Sleep

SteadySpec == Init /\ [][SteadyNext]_vars

----------------------------------------------------------------------------
(* AddressDeriver on its own: the chain of lines 106-109 applied to two    *)
(* (asset, wallet) pairs drawn from a small set of identities              *)

DKeys == {MINT, WALLET, "So11111111111111111111111111111111111111112"}

DPairs == [mint : DKeys, wallet : DKeys]

DInit ==
    /\ SchedulerInit
    /\ dIn \in [a : DPairs, b : DPairs]
    /\ dOut = None

DeriveChain ==
    /\ dOut = None
    /\ dOut' = [a |-> DerivedAddresses(Pubkey(dIn.a.mint),
                                       Pubkey(dIn.a.wallet)),
                b |-> DerivedAddresses(Pubkey(dIn.b.mint),
                                       Pubkey(dIn.b.wallet))]
    /\ UNCHANGED <<pc, cranker, res, results, dIn>>
    /\ UNCHANGED schedVars
    /\ UNCHANGED crankVars

DNext == DeriveChain

DeriveSpec == DInit /\ [][DNext]_vars

----------------------------------------------------------------------------
(* Properties of the Scheduler *)

\* the time elapsed at a gate check, as line 191 computes it
Elapsed == current_time - last_execution_time

\* lastExecution as section 4.5 of the specification intends it: captured
\* at loop entry, then the time of the latest cycle
IntendedLastExecution ==
    IF cycleStart # NoTime THEN cycleStart ELSE firstEntry

\* C1: at a gate check the due branch is taken if and only if the elapsed
\* time since last_execution_time is at least 30 days; an elapsed time of
\* 29d23h59m59s does not take it and an elapsed time of exactly 30d does.
C1_GateBoundary ==
    [][(pc = "gate" /\ pc' # "gate") =>
          /\ pc' \in {"due", "sleep"}
          /\ (pc' = "due") <=> (Elapsed >= 30 * 24 * 60 * 60)
          /\ (Elapsed = 30 * 24 * 60 * 60 - 1) => (pc' = "sleep")
          /\ (Elapsed = 30 * 24 * 60 * 60) => (pc' = "due")]_vars

C1_Witness ==
    /\ pc = "due"
    /\ Elapsed = 30 * 24 * 60 * 60

\* C2: whenever the time elapsed since the intended lastExecution (loop
\* entry, then the latest cycle) has reached 30 days at a gate check, the
\* Scheduler goes from Idle to Due; in particular a first cycle is attempted
\* at the first gate check 30 days after loop entry.
C2_PeriodicExecution ==
    [][(pc = "gate" /\ pc' # "gate"
        /\ current_time - IntendedLastExecution >= Days30)
       => pc' = "due"]_vars

\* the latest completed cycle returned the VaultNotFound error
LastCycleFailed ==
    /\ Len(results) > 0
    /\ results[Len(results)] = "VaultNotFound"

\* C3: a cycle that returns VaultNotFound takes the Scheduler back to its
\* sleep with the schedule untouched, and at every later gate check the
\* next cycle is attempted exactly when the gate finds it due: the failed
\* result neither disables nor delays it.
C3_FailureIsolation ==
    [][/\ (pc = "crank_cluster" /\ pc' # pc) =>
             /\ pc' = "sleep"
             /\ res'.kind = "VaultNotFound"
             /\ UNCHANGED schedVars
       /\ (pc = "gate" /\ pc' # pc /\ LastCycleFailed) =>
             ((pc' = "due") <=> (Elapsed >= Days30))]_vars

C3_Witness ==
    /\ pc = "due"
    /\ LastCycleFailed
    /\ cycles = Len(results) + 1

\* C4: no reachable state is a crashed Scheduler, whatever fails inside a
\* due cycle.
C4_NoCrash == pc # "panicked"

\* C10: lastExecution is written only when a cycle runs: at every gate
\* check that finds the cycle not due, last_execution_time still has the
\* value captured at loop entry or at the latest cycle.
C10_LastExecutionFrame ==
    [][(pc = "gate" /\ pc' = "sleep") =>
          last_execution_time' = IntendedLastExecution]_vars

----------------------------------------------------------------------------
(* Properties of the executor *)

\* C5: a cycle that has returned reports success if and only if the
\* existence read found the account present, and a failure when the read
\* erred or found no account, whatever the submission returned.
C5_SuccessIffPresent ==
    (pc = "sleep" /\ res # None) =>
        /\ (res.kind = "Ok") <=> (account = "present")
        /\ (account \in {"err", "absent"}) => (res.kind = "VaultNotFound")

C5_Witness ==
    /\ pc = "sleep"
    /\ res # None
    /\ res.kind = "Ok"
    /\ sig = "err"
    /\ account = "present"

\* C6: get_cluster returns Devnet for the devnet fingerprint, Mainnet for
\* the mainnet fingerprint, Devnet for any other fingerprint, and an error
\* exactly when the fingerprint fetch erred.
C6_NetworkClassification ==
    (genesis_hash # "none") =>
        /\ (genesis_hash = DEVNET_HASH) =>
               (cluster = [ok |-> TRUE, value |-> "Devnet"])
        /\ (genesis_hash = MAINNET_HASH) =>
               (cluster = [ok |-> TRUE, value |-> "Mainnet"])
        /\ (genesis_hash \notin {"err", DEVNET_HASH, MAINNET_HASH}) =>
               (cluster = [ok |-> TRUE, value |-> "Devnet"])
        /\ (cluster.ok = FALSE) <=> (genesis_hash = "err")

C6_Witness ==
    /\ genesis_hash = OTHER_HASH
    /\ cluster = [ok |-> TRUE, value |-> "Devnet"]

\* C7: a VaultNotFound error carries the savings_vault address derived from
\* the cycle's (mint, wallet) pair and the label of the identified cluster;
\* the label of Devnet differs from the label of Mainnet.
C7_VaultNotFoundDiagnostic ==
    (pc = "sleep" /\ res # None /\ res.kind = "VaultNotFound") =>
        /\ res.message[2] = savings_vault
        /\ res.message[2] =
             [b58 |-> "", program |-> SAVINGS_VAULT_PROGRAM_ID,
              seeds |-> <<Seed("savings_vault"), Pubkey(MINT),
                          Pubkey(WALLET)>>]
        /\ (cluster.ok /\ cluster.value = "Devnet") =>
               (res.message[4] = "?devnet")
        /\ (cluster.ok /\ cluster.value = "Mainnet") =>
               (res.message[4] # "?devnet")

C7_Witness ==
    /\ pc = "sleep"
    /\ res # None
    /\ res.kind = "VaultNotFound"
    /\ cluster = [ok |-> TRUE, value |-> "Mainnet"]
    /\ res.message[4] = ""

\* C9: the four derived addresses never change once computed, so every
\* cycle, whatever the earlier cycles returned and whenever it runs, builds
\* its request with the same four addresses.
C9_DeterministicAddressing ==
    [][/\ (savings_vault # None) =>
             /\ savings_vault' = savings_vault
             /\ savings_vault_treasury' = savings_vault_treasury
             /\ interest_depositor_manager' = interest_depositor_manager
             /\ interest_depositor_treasury' = interest_depositor_treasury
       /\ (builder' # None) =>
             LET acc == builder'.instructions[2].accounts
             IN /\ acc[4][2] = savings_vault'
                /\ acc[5][2] = savings_vault_treasury'
                /\ acc[6][2] = interest_depositor_manager'
                /\ acc[7][2] = interest_depositor_treasury']_vars

C9_Witness ==
    /\ cycles >= 2
    /\ Len(results) >= 1
    /\ pc = "crank_send"
    /\ builder # None
    /\ builder.instructions[2].accounts[4][2] = savings_vault

----------------------------------------------------------------------------
(* Properties of the AddressDeriver *)

\* C8: with the asset fixed, a different wallet gives a different
\* SavingsVault and SavingsVaultTreasury and the same
\* InterestDepositorManager and InterestDepositorTreasury; a different
\* asset gives four different addresses.
C8_ChainStability ==
    (dOut # None) =>
        /\ (dIn.a.mint = dIn.b.mint /\ dIn.a.wallet # dIn.b.wallet) =>
              /\ dOut.a.savings_vault # dOut.b.savings_vault
              /\ dOut.a.savings_vault_treasury
                     # dOut.b.savings_vault_treasury
              /\ dOut.a.interest_depositor_manager
                     = dOut.b.interest_depositor_manager
              /\ dOut.a.interest_depositor_treasury
                     = dOut.b.interest_depositor_treasury
        /\ (dIn.a.mint # dIn.b.mint) =>
              /\ dOut.a.savings_vault # dOut.b.savings_vault
              /\ dOut.a.savings_vault_treasury
                     # dOut.b.savings_vault_treasury
              /\ dOut.a.interest_depositor_manager
                     # dOut.b.interest_depositor_manager
              /\ dOut.a.interest_depositor_treasury
                     # dOut.b.interest_depositor_treasury

C8_Witness ==
    /\ dOut # None
    /\ dIn.a.mint = dIn.b.mint
    /\ dIn.a.wallet # dIn.b.wallet
    /\ dOut.a.savings_vault # dOut.b.savings_vault
    /\ dOut.a.interest_depositor_manager = dOut.b.interest_depositor_manager

----------------------------------------------------------------------------
(* Properties of the Scheduler as implemented *)

\* C11: with the two clock reads of every iteration less than 30 days
\* apart, the gate never fires: no cycle is ever started and the executor
\* is never entered, however much time passes.
C11_GateNeverFires ==
    /\ cycles = 0
    /\ pc \in {"loop_top", "read_current", "gate", "sleep"}
    /\ res = None

C11_Witness ==
    /\ pc = "sleep"
    /\ iter >= 2
    /\ cycles = 0
    /\ current_time - firstEntry >= Days30

----------------------------------------------------------------------------
(* Step order of the executor *)

\* the RPC calls of one executor call, in the order of lines 138-144
RpcOrder == <<"send", "get_account", "get_genesis_hash">>

\* C13 (as stated): every executor call that has returned submitted exactly
\* one request, then issued the single existence read, and fetched the
\* genesis hash at most once and only after that read erred or found no
\* account.
C13_StepOrdering ==
    (pc = "sleep" /\ res # None) =>
        /\ Len(rpcLog) \in {2, 3}
        /\ rpcLog = SubSeq(RpcOrder, 1, Len(rpcLog))
        /\ (Len(rpcLog) = 3) => (account \in {"err", "absent"})
        /\ (account = "present") => (Len(rpcLog) = 2)

\* C13 (amended): no executor call submits more than one request and every
\* call that returns Ok or VaultNotFound has submitted exactly one; the
\* submission precedes the single existence read; the genesis hash is
\* fetched at most once and only after that read erred or found no account,
\* and never when the read found the account.
C13_StepOrderingAmended ==
    /\ Len(rpcLog) <= 3
    /\ rpcLog = SubSeq(RpcOrder, 1, Len(rpcLog))
    /\ (Len(rpcLog) = 3) => (account \in {"err", "absent"})
    /\ (account = "present") => (Len(rpcLog) = 2)
    /\ (account # "none") => (Len(rpcLog) >= 2 /\ sig # "none")
    /\ (pc = "sleep" /\ res # None /\ res.kind = "Ok") => (Len(rpcLog) = 2)
    /\ (pc = "sleep" /\ res # None /\ res.kind = "VaultNotFound") =>
           (Len(rpcLog) = 3)

C13_Witness ==
    /\ pc = "sleep"
    /\ res # None
    /\ res.kind = "Ok"
    /\ account = "present"
    /\ rpcLog = <<"send", "get_account">>
    /\ genesis_hash = "none"

\* C14: when the genesis hash fetch fails on the failure path, the executor
\* still returns VaultNotFound, with the label of Mainnet (the empty label,
\* not "?devnet"); the failure of get_cluster is never the returned error
\* and the step that meets it goes on to the sleep of the loop.
C14_DegradedDiagnostic ==
    [][(pc = "crank_cluster" /\ pc' # pc) =>
          /\ pc' = "sleep"
          /\ res'.kind = "VaultNotFound"
          /\ res'.message[2] = savings_vault
          /\ (genesis_hash' = "err") =>
                 /\ cluster'.ok = FALSE
                 /\ res'.message[4] = ""
                 /\ res'.message[4] # "?devnet"
                 /\ res'.message[4] = cluster_param("Mainnet")]_vars

C14_Witness ==
    /\ pc = "sleep"
    /\ genesis_hash = "err"
    /\ cluster.ok = FALSE
    /\ res # None
    /\ res.kind = "VaultNotFound"
    /\ res.message[4] = ""

----------------------------------------------------------------------------
(* The sleep of the loop *)

\* the positions of an iteration between its top and its sleep
IterationPcs ==
    {"read_current", "gate", "due", "crank_derive", "crank_ix",
     "crank_builder", "crank_send", "crank_read", "crank_cluster"}

\* C15: every loop iteration ends with exactly one sleep of at least one
\* hour, whether or not it ran a cycle and whatever the cycle returned: a
\* started iteration always goes on to the sleep, the sleep is followed by
\* the top of the loop only, a gate check is reached only from the top of
\* the loop, and a cycle starts only from a gate check.
C15_OneSleepPerIteration ==
    [][(pc' # pc) =>
          /\ (pc \in IterationPcs) => (pc' \in IterationPcs \cup {"sleep"})
          /\ (pc = "sleep") => (pc' = "loop_top" /\ now' - now >= 60 * 60)
          /\ (pc' = "loop_top") => (pc = "sleep")
          /\ (pc' = "read_current") => (pc = "loop_top")
          /\ (pc' = "gate") => (pc = "read_current")
          /\ (pc' = "due") => (pc = "gate")
          /\ (pc' = "crank_derive") => (pc = "due")]_vars

----------------------------------------------------------------------------
(* The submitted request *)

\* C16: the request handed to send holds exactly two instructions, first
\* the compute-budget directive with the ceiling 400000, then the
\* AccrueInterest call with the accounts mint, cranker (the signer's
\* identity), wallet, savings_vault, savings_vault_treasury,
\* interest_depositor_manager, interest_depositor_treasury, token program
\* and clock, in this order; it has the one signer added at line 136 and is
\* built in the cycle that sends it, no request being kept from an earlier
\* cycle.
C16_RequestShape ==
    [][/\ (pc = "crank_send" /\ pc' # pc) =>
             LET ixs == builder.instructions
                 acc == builder.instructions[2].accounts
             IN /\ Len(ixs) = 2
                /\ ixs[1] = [program |-> "ComputeBudget",
                             accounts |-> <<400000>>]
                /\ ixs[2].program = SAVINGS_VAULT_PROGRAM_ID
                /\ Len(acc) = 9
                /\ acc[1] = <<"mint", Pubkey(MINT)>>
                /\ acc[2] = <<"cranker", cranker>>
                /\ acc[3] = <<"wallet", Pubkey(WALLET)>>
                /\ acc[4] = <<"savings_vault", savings_vault>>
                /\ acc[5] = <<"savings_vault_treasury",
                              savings_vault_treasury>>
                /\ acc[6] = <<"interest_depositor_manager",
                              interest_depositor_manager>>
                /\ acc[7] = <<"interest_depositor_treasury",
                              interest_depositor_treasury>>
                /\ acc[8] = <<"token_program", Pubkey(TOKEN_PROGRAM_ID)>>
                /\ acc[9] = <<"clock", Pubkey(CLOCK_ID)>>
                /\ builder.signers = <<cranker>>
                /\ cranker = Pubkey(CRANKER_KEY)
                /\ builder' = builder
                /\ rpcLog = << >>
       /\ (pc' = "crank_send" /\ pc' # pc) =>
             /\ builder = None
             /\ builder' # None]_vars

C16_Witness ==
    /\ pc = "crank_read"
    /\ cycles = 2
    /\ Len(results) = 1
    /\ rpcLog = <<"send">>
    /\ builder # None
    /\ Len(builder.instructions) = 2

----------------------------------------------------------------------------
(* Failure of the instruction build *)

\* C17: when accrue_ix.instructions() fails, the executor returns that
\* error at once: the call has submitted nothing, issued no existence read
\* and no genesis hash fetch, built no request, and the returned error is
\* not a VaultNotFound error.
C17_BuildFailureReturns ==
    [][(pc = "crank_ix" /\ pc' = "sleep") =>
          /\ res'.kind = "ClientError"
          /\ res'.kind # "VaultNotFound"
          /\ results' = Append(results, "ClientError")
          /\ rpcLog' = << >>
          /\ sig' = "none"
          /\ account' = "none"
          /\ genesis_hash' = "none"
          /\ builder' = None]_vars

C17_Witness ==
    /\ pc = "sleep"
    /\ cycles >= 1
    /\ res # None
    /\ res.kind = "ClientError"
    /\ rpcLog = << >>
    /\ account = "none"

====
